---- MODULE Spec2Model ----
(***************************************************************************)
(* Model of the layered settings loader of src/api/settings.py:           *)
(* _AbstractSettings.load merges the config files it is given, in order,  *)
(* applies the keyword overrides, coerces time-typed fields and builds    *)
(* the frozen dataclass.                                                   *)
(***************************************************************************)
EXTENDS Integers, Sequences, FiniteSets, TLC

\* Longest list of config file paths passed to load.
MaxFiles == 2

(***************************************************************************)
(* Values.  A Python value is a record of its type and its payload, so    *)
(* that a string and the Timestamp built from it are different values.    *)
(***************************************************************************)
None == [type |-> "NoneType", v |-> "None"]

Str(s) == [type |-> "str", v |-> s]

\* pathlib.Path(s)
PathOf(s) == [type |-> "Path", v |-> s]

\* settings = {}
EmptyDict == [k \in {} |-> None]

\* A dict with the single item k: v.
Item(k, v) == [x \in {k} |-> v]

\* dict.update: the items of b are written over those of a.
Update(a, b) ==
    [k \in (DOMAIN a) \cup (DOMAIN b) |-> IF k \in DOMAIN b THEN b[k] ELSE a[k]]

(***************************************************************************)
(* The classes load is called on.  PreparationSettings is the schema of   *)
(* the repository; WindowSettings stands for a child dataclass with a     *)
(* time-typed annotation; PlainSettings is a child class that was not     *)
(* declared as a dataclass.                                                *)
(***************************************************************************)
Classes == {"PreparationSettings", "WindowSettings", "PlainSettings"}

\* Variant: any child class passes.
IsDataclassUnchecked(c) == TRUE

\* dataclasses.is_dataclass(cls)
IsDataclass(c) == c \in {"PreparationSettings", "WindowSettings"}

PreparationSettings ==
    [target |-> "str", test_size |-> "float", in_path |-> "Path",
     out_train |-> "Path", out_test |-> "Path"]

\* get_type_hints(cls): annotation name -> declared type.
TypeHints(c) ==
    CASE c = "PreparationSettings" -> PreparationSettings
      [] c = "WindowSettings" -> [target |-> "str", start |-> "Timestamp"]
      [] OTHER -> [target |-> "str"]

\* fields = set(get_type_hints(cls).keys())
Fields(c) == DOMAIN TypeHints(c)

TIME_TYPES == {"Period", "Timestamp", "Timedelta", "DateOffset"}

(***************************************************************************)
(* The time constructors.  pandas parses a date string into a Timestamp   *)
(* or a Period; a string that is no date raises ValueError.  A value that *)
(* already has the type is returned as it is, and Timestamp(None) is the  *)
(* missing time NaT.                                                       *)
(***************************************************************************)
NaT == [type |-> "NaTType", v |-> "NaT"]

DateStrings == {"2024-01-01", "2024-06-30"}

Parses(t, val) ==
    \/ val.type = t
    \/ val.type = "str" /\ val.v \in DateStrings /\ t \in {"Timestamp", "Period"}

\* field_type(value) for a value that parses.
TimeConstructor(t, val) == IF val = None THEN NaT ELSE [type |-> t, v |-> val.v]

(***************************************************************************)
(* The inputs.                                                             *)
(***************************************************************************)
\* The two annotations the config documents and overrides range over.
FirstKey(c) == "target"

SecondKey(c) == IF c = "WindowSettings" THEN "start" ELSE "test_size"

FileValue1 == Str("2024-01-01")

FileValue2 == Str("soon")

OverrideValue == Str("2024-06-30")

\* What opening and safe_load-ing a config path can give: the file is
\* missing, is not YAML, holds a document that is no mapping (an empty
\* file loads as None), or holds a mapping.
Mapping(m) == [kind |-> "mapping", map |-> m]

Broken(kind) == [kind |-> kind, map |-> EmptyDict]

Documents(c) ==
    LET k1 == FirstKey(c)
        k2 == SecondKey(c)
    IN  {Broken("missing"), Broken("invalid"), Broken("scalar")} \cup
        { Mapping(m) : m \in
            { EmptyDict,
              Item(k1, FileValue1), Item(k1, FileValue2),
              Item(k2, FileValue1), Item(k2, FileValue2), Item(k2, None),
              Item("extra", FileValue1),
              Update(Item(k1, FileValue2), Item(k2, FileValue1)),
              Update(Item(k1, FileValue1), Item("extra", FileValue2)) } }

Optional(k, vals) == {EmptyDict} \cup {Item(k, v) : v \in vals}

\* The keyword arguments the command line always passes (data_prep.py).
CliParams(c) ==
    IF c = "PreparationSettings"
    THEN { Update(Update(Item("in_path", PathOf("in.csv")),
                         Item("out_train", PathOf("train.parquet"))), o) :
              o \in Optional("out_test", {None, PathOf("test.parquet")}) }
    ELSE {EmptyDict}

Overrides(c) ==
    { Update(Update(Update(a, b), x), cli) :
        a \in Optional(FirstKey(c), {None, OverrideValue}),
        b \in Optional(SecondKey(c), {None, OverrideValue}),
        x \in Optional("bogus", {Str("x")}),
        cli \in CliParams(c) }

\* filepaths: None, one path, or a list of paths.  Paths are numbered.
FilepathArgs ==
    {[form |-> "none", paths |-> <<>>], [form |-> "single", paths |-> <<1>>]}
    \cup {[form |-> "list", paths |-> [i \in 1..n |-> i]] : n \in 0..MaxFiles}

(***************************************************************************)
(* State of one call of load.                                              *)
(***************************************************************************)
VARIABLES
    cls,        \* the class load is called on
    filepaths,  \* the filepaths argument
    params,     \* the keyword overrides
    pc,         \* position in load
    paths,      \* filepaths after _process_filepaths
    idx,        \* index in paths of the file being processed
    docs,       \* what each path opened so far turned out to hold
    open,       \* the paths whose file object is open
    settings,   \* the accumulator
    warnings,   \* number of logger.warning calls
    instance,   \* the returned dataclass instance, when pc = "done"
    err,        \* the exception load ended with, when pc = "failed"
    last        \* the call before this one: its inputs and how it ended

\* State of the gains endpoint (src/api/api/stock_api.py).
VARIABLES
    request,    \* the query parameters of the request being answered
    gpc,        \* position in calculate_gains
    dates,      \* start_date and end_date once strptime has parsed them
    cache,      \* what lru_cache holds for load_data
    loadResult, \* how load_data went for this request
    loadLog,    \* how every load_data call so far went, in order
    served,     \* number of requests received
    response    \* the response to the request

gainsVars == <<request, gpc, dates, cache, loadResult, loadLog, served, response>>

\* State of one call of subtract_group_mean
\* (src/api/processing/subtract_group_mean.py).
VARIABLES
    frame,      \* the input DataFrame: its rows, in order
    result,     \* the returned DataFrame
    mpc         \* "input" before the call, "done" after it

meanVars == <<frame, result, mpc>>

loadVars == <<cls, filepaths, params, pc, paths, idx, docs, open, settings,
              warnings, instance, err, last>>

vars == <<loadVars, gainsVars, meanVars>>

\* No request is being answered, nothing is cached.
NoRequest == [name |-> "", starting_date |-> "", end_date |-> "", investment |-> 0]

NoResponse == [status |-> 0, detail |-> "", headers |-> {}, gains |-> 0]

NoDates == [start |-> 0, end |-> 0]

EmptyCache == [full |-> FALSE, frame |-> {}]

GainsIdle ==
    /\ request = NoRequest
    /\ gpc = "idle"
    /\ dates = NoDates
    /\ cache = EmptyCache
    /\ loadResult = "none"
    /\ loadLog = <<>>
    /\ served = 0
    /\ response = NoResponse

MeanIdle ==
    /\ frame = <<>>
    /\ result = <<>>
    /\ mpc = "idle"

Failed(e, w) == [pc |-> "failed", err |-> e, instance |-> EmptyDict, warnings |-> w]

Returned(i, w) == [pc |-> "done", err |-> "none", instance |-> i, warnings |-> w]

\* No call was made before this one.
NoCall ==
    [cls |-> "none", filepaths |-> [form |-> "none", paths |-> <<>>],
     params |-> EmptyDict, docs |-> <<>>, outcome |-> Failed("none", 0)]

Init ==
    /\ cls \in Classes
    /\ filepaths \in FilepathArgs
    /\ params \in Overrides(cls)
    /\ pc = "start"
    /\ paths = <<>>
    /\ idx = 0
    /\ docs = <<>>
    /\ open = {}
    /\ settings = EmptyDict
    /\ warnings = 0
    /\ instance = EmptyDict
    /\ err = "none"
    /\ last = NoCall
    /\ GainsIdle
    /\ MeanIdle

\* if filepaths:
Truthy(fp) == fp.form = "single" \/ (fp.form = "list" /\ Len(fp.paths) > 0)

\* _process_filepaths: a single path becomes a list of one path.
ProcessFilepaths(fp) ==
    IF fp.form = "single" THEN <<fp.paths[1]>> ELSE [i \in 1..Len(fp.paths) |-> fp.paths[i]]

\* Variant: the document is taken as it is.
FilterContentKeepAll(content, fields) == content

\* content = {field: value for field, value in content.items() if field in fields}
FilterContent(content, fields) ==
    [k \in (DOMAIN content) \cap fields |-> content[k]]

\* Variant: the test is made against the accumulator after the update.
DuplicatedAfterUpdate(acc, content) ==
    (DOMAIN Update(acc, content)) \cap (DOMAIN content) # {}

\* if set(settings.keys()).intersection(content.keys()):
Duplicated(acc, content) == (DOMAIN acc) \cap (DOMAIN content) # {}

\* {field: value for field, value in params.items() if value is not None}
NonNull(p) == [k \in {x \in DOMAIN p : p[x] # None} |-> p[k]]

\* Variant: the first file to define a key keeps it.
MergeContentKeepFirst(acc, content) == Update(content, acc)

\* settings.update(content)
MergeContent(acc, content) == Update(acc, content)

\* Variant: the overrides only fill what the files left open.
ApplyOverridesFilesWin(acc, p) == Update(NonNull(p), acc)

\* Variant: the overrides are written without the null filter.
ApplyOverridesWithNull(acc, p) == Update(acc, p)

\* settings.update({... params ... if value is not None})
ApplyOverrides(acc, p) == Update(acc, NonNull(p))

\* Variant: the loop is inside the try block and every error is wrapped.
FileErrorWrapped(kind) == "MissingParamError"

\* The exception that leaves the loop body for a path that holds no mapping:
\* open() raises FileNotFoundError, safe_load raises YAMLError, and
\* content.items() raises AttributeError on a document that is no mapping.
\* None of them is inside the try block of load.
FileError(kind) ==
    CASE kind = "missing" -> "FileNotFoundError"
      [] kind = "invalid" -> "YAMLError"
      [] OTHER -> "AttributeError"

\* The fields _convert_to_time converts.
TimeFields(c, acc) ==
    {f \in Fields(c) : f \in DOMAIN acc /\ TypeHints(c)[f] \in TIME_TYPES}

\* Variant: the accumulator is returned as it came.
ConvertToTimeSkipped(c, acc) == acc

ConvertToTime(c, acc) ==
    [k \in DOMAIN acc |->
        IF k \in TimeFields(c, acc) /\ acc[k] # None
        THEN TimeConstructor(TypeHints(c)[k], acc[k])
        ELSE acc[k]]

\* The constructors that raise while _convert_to_time runs.
ConvertRaises(c, acc) ==
    \E f \in TimeFields(c, acc) : acc[f] # None /\ ~Parses(TypeHints(c)[f], acc[f])

\* Variant: every unexpected keyword is accepted, only a missing one raises.
ConstructRaisesOnMissing(c, acc) == ~(Fields(c) \subseteq (DOMAIN acc))

\* Variant: every field has a default, only an unexpected keyword raises.
ConstructRaisesOnUnexpected(c, acc) == ~((DOMAIN acc) \subseteq Fields(c))

\* cls(**settings) raises TypeError on a missing or an unexpected keyword.
ConstructRaises(c, acc) == DOMAIN acc # Fields(c)

\* Variant: the file is closed after safe_load, not by a with block, so
\* it stays open when safe_load raises.
ClosedUnlessRaised(handles, path, raised) ==
    IF raised THEN handles ELSE handles \ {path}

\* line 79: leaving the with block closes the file, raised or not.
WithExit(handles, path, raised) == handles \ {path}

\* Variant: the accumulator is a dict shared by the calls.
KeptSettings(stale) == stale

\* line 73: settings = {}, a new dict whatever an earlier call left behind.
InitialSettings(stale) == EmptyDict

Raise(e) ==
    /\ pc' = "failed"
    /\ err' = e

\* load, lines 68-76: the dataclass check, the empty accumulator, the
\* filepaths argument.
StartLoad ==
    /\ pc = "start"
    /\ IF ~IsDataclass(cls)
       THEN /\ Raise("NotDataClassError")
            /\ UNCHANGED <<paths, idx, settings>>
       ELSE /\ settings' = InitialSettings(settings)
            /\ err' = err
            /\ IF Truthy(filepaths)
               THEN /\ paths' = ProcessFilepaths(filepaths)
                    /\ idx' = 1
                    /\ pc' = "open"
               ELSE /\ pc' = "params"
                    /\ UNCHANGED <<paths, idx>>
    /\ UNCHANGED <<cls, filepaths, params, docs, open, warnings, instance, last,
                   gainsVars, meanVars>>

\* line 79: Path(filepath).open(); the file system decides what is there.
OpenFile ==
    /\ pc = "open"
    /\ \E doc \in Documents(cls) :
        /\ docs' = Append(docs, doc)
        /\ IF doc.kind = "missing"
           THEN /\ Raise(FileError(doc.kind))
                /\ open' = open
           ELSE /\ open' = open \cup {paths[idx]}
                /\ pc' = "read"
                /\ err' = err
    /\ UNCHANGED <<cls, filepaths, params, paths, idx, settings, warnings, instance, last,
                   gainsVars, meanVars>>

\* lines 80-90: safe_load inside the with block, which closes the file on
\* every exit; then the filter, the warning and the update.
ReadFile ==
    /\ pc = "read"
    /\ open' = WithExit(open, paths[idx], docs[idx].kind = "invalid")
    /\ LET doc == docs[idx]
           content == FilterContent(doc.map, Fields(cls))
       IN  IF doc.kind # "mapping"
           THEN /\ Raise(FileError(doc.kind))
                /\ UNCHANGED <<settings, warnings, idx>>
           ELSE   /\ warnings' = IF Duplicated(settings, content)
                                 THEN warnings + 1 ELSE warnings
                  /\ settings' = MergeContent(settings, content)
                  /\ idx' = idx + 1
                  /\ pc' = IF idx < Len(paths) THEN "open" ELSE "params"
                  /\ err' = err
    /\ UNCHANGED <<cls, filepaths, params, paths, docs, instance, last,
                   gainsVars, meanVars>>

\* line 92: the non-null overrides are written over the accumulator.
ApplyParams ==
    /\ pc = "params"
    /\ settings' = ApplyOverrides(settings, params)
    /\ pc' = "convert"
    /\ UNCHANGED <<cls, filepaths, params, paths, idx, docs, open, warnings,
                   instance, err, last,
                   gainsVars, meanVars>>

\* line 94: settings = cls._convert_to_time(settings)
ConvertStep ==
    /\ pc = "convert"
    /\ IF ConvertRaises(cls, settings)
       THEN /\ Raise("ValueError")
            /\ settings' = settings
       ELSE /\ settings' = ConvertToTime(cls, settings)
            /\ pc' = "construct"
            /\ err' = err
    /\ UNCHANGED <<cls, filepaths, params, paths, idx, docs, open, warnings, instance, last,
                   gainsVars, meanVars>>

\* lines 96-103: return cls(**settings), TypeError becomes MissingParamError.
Construct ==
    /\ pc = "construct"
    /\ IF ConstructRaises(cls, settings)
       THEN /\ Raise("MissingParamError")
            /\ instance' = instance
       ELSE /\ instance' = settings
            /\ pc' = "done"
            /\ err' = err
    /\ UNCHANGED <<cls, filepaths, params, paths, idx, docs, open, settings, warnings, last,
                   gainsVars, meanVars>>

Next ==
    \/ StartLoad
    \/ OpenFile
    \/ ReadFile
    \/ ApplyParams
    \/ ConvertStep
    \/ Construct

Spec == Init /\ [][Next]_vars

(***************************************************************************)
(* A sequence of calls: when a call has ended the caller calls load       *)
(* again.  What the ended call left in memory stays there until the new   *)
(* call writes over it.  The calls are drawn from a sample of the inputs: *)
(* a dataclass with a time-typed field or a class that is no dataclass,   *)
(* with no path or one path and non-null overrides of schema fields, or   *)
(* with a list of two paths and no override.                               *)
(***************************************************************************)
CallSample(c, fp, p) ==
    /\ c \in {"WindowSettings", "PlainSettings"}
    /\ \A k \in DOMAIN p : k \in Fields("WindowSettings") /\ p[k] # None
    /\ \/ fp.form \in {"none", "single"}
       \/ fp.form = "list" /\ Len(fp.paths) = Len(<<1, 2>>) /\ p = EmptyDict

InitSeq == Init /\ CallSample(cls, filepaths, params)

Outcome == [pc |-> pc, err |-> err, instance |-> instance, warnings |-> warnings]

Ended == pc \in {"done", "failed"}

NextCall ==
    /\ Ended
    /\ last' = [cls |-> cls, filepaths |-> filepaths, params |-> params,
                docs |-> docs, outcome |-> Outcome]
    /\ \E c \in Classes :
          \E p \in Overrides(c), fp \in FilepathArgs :
              /\ CallSample(c, fp, p)
              /\ cls' = c
              /\ filepaths' = fp
              /\ params' = p
    /\ pc' = "start"
    /\ paths' = <<>>
    /\ idx' = 0
    /\ docs' = <<>>
    /\ warnings' = 0
    /\ instance' = EmptyDict
    /\ err' = "none"
    /\ UNCHANGED <<open, settings, gainsVars, meanVars>>

NextSeq == Next \/ NextCall

SpecSeq == InitSeq /\ [][NextSeq]_vars

TypeOK ==
    /\ pc \in {"start", "open", "read", "params", "convert", "construct", "done", "failed"}
    /\ idx \in 0..(MaxFiles + 1)
    /\ warnings \in 0..MaxFiles
    /\ open \subseteq 1..MaxFiles
    /\ Len(docs) <= Len(paths)

(***************************************************************************)
(* load as a function of what it is given: the class, what the listed     *)
(* paths hold, in order, and the overrides.                                *)
(***************************************************************************)
RECURSIVE MergeFiles(_, _, _, _)
\* The loop of lines 78-90 over the documents ds, from accumulator acc
\* and w warnings.
MergeFiles(c, ds, acc, w) ==
    IF ds = <<>>
    THEN [err |-> "none", settings |-> acc, warnings |-> w]
    ELSE LET doc == Head(ds)
             content == FilterContent(doc.map, Fields(c))
         IN  IF doc.kind # "mapping"
             THEN [err |-> FileError(doc.kind), settings |-> acc, warnings |-> w]
             ELSE MergeFiles(c, Tail(ds), MergeContent(acc, content),
                             IF Duplicated(acc, content) THEN w + 1 ELSE w)

LoadOutcome(c, ds, p) ==
    IF ~IsDataclass(c)
    THEN Failed("NotDataClassError", 0)
    ELSE LET m == MergeFiles(c, ds, EmptyDict, 0)
             s == ApplyOverrides(m.settings, p)
         IN  IF m.err # "none" THEN Failed(m.err, m.warnings)
             ELSE IF ConvertRaises(c, s) THEN Failed("ValueError", m.warnings)
             ELSE IF ConstructRaises(c, ConvertToTime(c, s))
                  THEN Failed("MissingParamError", m.warnings)
                  ELSE Returned(ConvertToTime(c, s), m.warnings)

(***************************************************************************)
(* Vocabulary of the properties, in terms of the inputs of the call only. *)
(***************************************************************************)
\* The i-th document read is a mapping that defines key f.
Defines(i, f) == docs[i].kind = "mapping" /\ f \in DOMAIN docs[i].map

DefinedByFile(f) == \E i \in 1..Len(docs) : Defines(i, f)

\* The last file, in the supplied order, that defines f.
LastDefining(f) ==
    CHOOSE i \in 1..Len(docs) : Defines(i, f) /\ \A j \in (i+1)..Len(docs) : ~Defines(j, f)

\* f has an override whose value is not null.
Overridden(f) == f \in DOMAIN params /\ params[f] # None

Supplied(f) == Overridden(f) \/ DefinedByFile(f)

\* The value the sources give f: the override, else the last file's.
MergedValue(f) == IF Overridden(f) THEN params[f] ELSE docs[LastDefining(f)].map[f]

IsTimeField(f) == TypeHints(cls)[f] \in TIME_TYPES

(***************************************************************************)
(* C1, as stated: for every schema field with a non-null override, the    *)
(* returned instance's field equals the override value, whatever the      *)
(* files hold and in whatever order.                                       *)
(***************************************************************************)
C1_OverrideValueKept ==
    pc = "done" =>
        \A f \in Fields(cls) : Overridden(f) => instance[f] = params[f]

(***************************************************************************)
(* C1, amended: for every schema field with a non-null override, the      *)
(* returned instance's field is the override value, or, when the field is *)
(* declared time-like, the time value its constructor builds from the     *)
(* override value; whatever the files hold and in whatever order.         *)
(***************************************************************************)
C1_OverridePrecedence ==
    pc = "done" =>
        \A f \in Fields(cls) :
            Overridden(f) =>
                instance[f] = IF IsTimeField(f)
                              THEN TimeConstructor(TypeHints(cls)[f], params[f])
                              ELSE params[f]

\* A returned instance one of whose fields was overridden while a file
\* defined it with another value.
C1_Witness ==
    /\ pc = "done"
    /\ \E f \in Fields(cls) :
          /\ Overridden(f)
          /\ DefinedByFile(f)
          /\ docs[LastDefining(f)].map[f] # params[f]

(***************************************************************************)
(* C2, as stated: a schema field with no non-null override that some file *)
(* defines has, in the returned instance, the value of the last file, in  *)
(* the supplied order, that defines it.                                    *)
(***************************************************************************)
C2_LastFileValueKept ==
    pc = "done" =>
        \A f \in Fields(cls) :
            (~Overridden(f) /\ DefinedByFile(f)) =>
                instance[f] = docs[LastDefining(f)].map[f]

(***************************************************************************)
(* C2, amended: a schema field with no non-null override that some file   *)
(* defines has, in the returned instance, the value of the last file that *)
(* defines it, or, when the field is declared time-like and that value is *)
(* not null, the time value its constructor builds from that value.       *)
(***************************************************************************)
C2_LastWriteWins ==
    pc = "done" =>
        \A f \in Fields(cls) :
            (~Overridden(f) /\ DefinedByFile(f)) =>
                LET lastValue == docs[LastDefining(f)].map[f]
                IN  instance[f] = IF IsTimeField(f) /\ lastValue # None
                                  THEN TimeConstructor(TypeHints(cls)[f], lastValue)
                                  ELSE lastValue

\* A returned instance with a field that two files define differently and
\* no override touches.
C2_Witness ==
    /\ pc = "done"
    /\ Len(docs) >= 2
    /\ \E f \in Fields(cls) :
          /\ ~Overridden(f)
          /\ Defines(1, f) /\ Defines(2, f)
          /\ docs[1].map[f] # docs[2].map[f]


(***************************************************************************)
(* C3, as stated: load returns an instance only if every schema field was *)
(* supplied by a file or a non-null override, and when some field was     *)
(* supplied by neither, load on a dataclass fails with MissingParamError. *)
(***************************************************************************)
C3_MissingAlwaysMissingParamError ==
    /\ pc = "done" => \A f \in Fields(cls) : Supplied(f)
    /\ (Ended /\ cls # "PlainSettings" /\ \E f \in Fields(cls) : ~Supplied(f)) =>
            pc = "failed" /\ err = "MissingParamError"

\* Some document read is no mapping: the path was missing, no YAML or no dict.
SomeFileFailed == \E i \in 1..Len(docs) : docs[i].kind # "mapping"

\* The merged value of some time-like field is a string its constructor rejects.
SomeTimeRejected ==
    \E f \in Fields(cls) :
        /\ Supplied(f) /\ IsTimeField(f)
        /\ MergedValue(f) # None
        /\ ~Parses(TypeHints(cls)[f], MergedValue(f))

(***************************************************************************)
(* C3, amended: load returns an instance only if every schema field was   *)
(* supplied by a file or a non-null override; when some field was         *)
(* supplied by neither, load on a dataclass returns no instance, and the  *)
(* error is MissingParamError unless a listed file could not be opened or *)
(* read as a mapping, or a time constructor rejected a value, in which    *)
(* case load has already ended with that error.                            *)
(***************************************************************************)
C3_RequiredFieldCompleteness ==
    /\ pc = "done" => \A f \in Fields(cls) : Supplied(f)
    /\ (Ended /\ cls # "PlainSettings" /\ \E f \in Fields(cls) : ~Supplied(f)) =>
            /\ pc = "failed"
            /\ instance = EmptyDict
            /\ SomeFileFailed =>
                  err \in {"FileNotFoundError", "YAMLError", "AttributeError"}
            /\ (~SomeFileFailed /\ SomeTimeRejected) => err = "ValueError"
            /\ (~SomeFileFailed /\ ~SomeTimeRejected) => err = "MissingParamError"

\* load read at least one file and failed with MissingParamError because a
\* field had no source.
C3_Witness ==
    /\ pc = "failed" /\ err = "MissingParamError"
    /\ Len(docs) >= 1
    /\ \E f \in Fields(cls) : ~Supplied(f)
    /\ \E f \in Fields(cls) : Supplied(f)

\* The documents with the keys outside the schema removed.
StripUnknown(ds) ==
    [i \in 1..Len(ds) |->
        [kind |-> ds[i].kind,
         map |-> [k \in {x \in DOMAIN ds[i].map : x \in Fields(cls)} |-> ds[i].map[k]]]]

UnknownFileKeys == UNION {(DOMAIN docs[i].map) \ Fields(cls) : i \in 1..Len(docs)}

(***************************************************************************)
(* C4: the keys of a config file that are no schema fields never appear   *)
(* in the accumulator or in the returned instance, and load ends as it    *)
(* would have with those keys removed from the files: same instance or    *)
(* same error, same warnings.                                              *)
(***************************************************************************)
C4_UnknownKeyTolerance ==
    /\ UnknownFileKeys \cap (DOMAIN settings) = {}
    /\ UnknownFileKeys \cap (DOMAIN instance) = {}
    /\ Ended => Outcome = LoadOutcome(cls, StripUnknown(docs), params)

\* An instance was returned although a file mixed a schema field with a
\* key outside the schema.
C4_Witness ==
    /\ pc = "done"
    /\ \E i \in 1..Len(docs) :
          /\ (DOMAIN docs[i].map) \ Fields(cls) # {}
          /\ (DOMAIN docs[i].map) \cap Fields(cls) # {}

\* The overrides with the null ones left out.
WithoutNulls(p) == [k \in {x \in DOMAIN p : p[x].type # "NoneType"} |-> p[k]]

NullOverrides == {f \in DOMAIN params : params[f] = None}

(***************************************************************************)
(* C5: an override whose value is null is treated like an absent one:     *)
(* once the overrides are applied the accumulator holds for that name     *)
(* just what the files gave it (the last file's value, or nothing), and   *)
(* load ends as it would have without the null overrides.                  *)
(***************************************************************************)
C5_NullOverridesIgnored ==
    /\ pc = "convert" =>
          \A f \in NullOverrides :
              /\ f \in DOMAIN settings <=> (f \in Fields(cls) /\ DefinedByFile(f))
              /\ f \in DOMAIN settings => settings[f] = docs[LastDefining(f)].map[f]
    /\ Ended => Outcome = LoadOutcome(cls, docs, WithoutNulls(params))

\* The overrides were applied, one of them null for a field that a file
\* had given a non-null value, and one null for a field no file defined.
C5_Witness ==
    /\ pc = "convert"
    /\ \E f \in NullOverrides : f \in DOMAIN settings /\ settings[f] # None
    /\ \E f \in NullOverrides : f \notin DOMAIN settings

(***************************************************************************)
(* C6: load on a class that is no dataclass fails with NotDataClassError  *)
(* as its first step, and at that point, and ever after, no config file   *)
(* has been opened or read, whatever filepaths and overrides were given.  *)
(***************************************************************************)
C6_SchemaCheckBeforeFiles ==
    /\ cls = "PlainSettings" =>
          /\ docs = <<>> /\ open = {}
          /\ pc \in {"start", "failed"}
          /\ pc = "failed" => err = "NotDataClassError"
    /\ err = "NotDataClassError" => cls = "PlainSettings" /\ docs = <<>>

\* The schema error was raised on a call that listed config files and
\* passed overrides.
C6_Witness ==
    /\ pc = "failed" /\ err = "NotDataClassError"
    /\ filepaths.form = "list" /\ Len(filepaths.paths) >= 2
    /\ \E f \in DOMAIN params : params[f] # None

\* The names the sources of this call give a value: the schema fields the
\* files define and the names with a non-null override.
SuppliedNames == {k \in Fields(cls) : DefinedByFile(k)} \cup {k \in DOMAIN params : Overridden(k)}

(***************************************************************************)
(* C7, as stated: every field of the accumulator declared time-like holds *)
(* in the returned instance the result of its type's constructor applied  *)
(* to the merged value, every other field holds the merged value itself,  *)
(* and coercion leaves the set of fields of the accumulator as it was.    *)
(***************************************************************************)
C7_EveryTimeFieldConstructed ==
    /\ pc = "done" =>
          \A f \in Fields(cls) :
              instance[f] = IF IsTimeField(f)
                            THEN TimeConstructor(TypeHints(cls)[f], MergedValue(f))
                            ELSE MergedValue(f)
    /\ pc = "construct" => DOMAIN settings = SuppliedNames

(***************************************************************************)
(* C7, amended: every field of the accumulator declared time-like whose   *)
(* merged value is not null holds in the returned instance the result of  *)
(* its type's constructor applied to the merged value; a time-like field  *)
(* whose merged value is null stays null, every other field holds the     *)
(* merged value itself, and coercion leaves the set of fields of the      *)
(* accumulator as it was.                                                  *)
(***************************************************************************)
C7_TimeCoercion ==
    /\ pc = "done" =>
          \A f \in Fields(cls) :
              instance[f] = IF IsTimeField(f) /\ MergedValue(f) # None
                            THEN TimeConstructor(TypeHints(cls)[f], MergedValue(f))
                            ELSE MergedValue(f)
    /\ pc = "construct" => DOMAIN settings = SuppliedNames

\* A returned instance whose time-like field came as a date string and
\* is now a Timestamp.
C7_Witness ==
    /\ pc = "done"
    /\ \E f \in Fields(cls) :
          /\ IsTimeField(f)
          /\ MergedValue(f).type = "str"
          /\ instance[f].type = "Timestamp"

\* The files merged so far: load is past their update.
Merged == {i \in 1..Len(docs) : i < idx /\ docs[i].kind = "mapping"}

SchemaKeys(i) == (DOMAIN docs[i].map) \cap Fields(cls)

\* The files that define a schema field an earlier file has defined.
Colliding == {i \in Merged : \E j \in Merged : j < i /\ SchemaKeys(j) \cap SchemaKeys(i) # {}}

UnknownOverride == \E k \in DOMAIN params : Overridden(k) /\ k \notin Fields(cls)

(***************************************************************************)
(* C8: one warning is logged for each file that defines a schema field    *)
(* which an earlier file defined, and none in any other case (keys        *)
(* outside the schema, overrides replacing file values); once the files   *)
(* are merged each field holds the value of the last file defining it;    *)
(* a collision never makes load fail: a dataclass load fails only for a   *)
(* file that cannot be read, a rejected time value, a field without a     *)
(* source or an override that names no field.                              *)
(***************************************************************************)
C8_DuplicateKeyWarning ==
    /\ warnings = Cardinality(Colliding)
    /\ pc = "params" =>
          \A f \in Fields(cls) :
              DefinedByFile(f) => settings[f] = docs[LastDefining(f)].map[f]
    /\ (Ended /\ cls # "PlainSettings") =>
          (pc = "failed" <=>
              \/ SomeFileFailed
              \/ SomeTimeRejected
              \/ \E f \in Fields(cls) : ~Supplied(f)
              \/ UnknownOverride)

\* An instance was returned after a warning, the later file's value in it.
C8_Witness ==
    /\ pc = "done"
    /\ warnings = 1
    /\ \E f \in Fields(cls) :
          /\ Len(docs) >= 2 /\ Defines(1, f) /\ Defines(2, f)
          /\ instance[f] = docs[2].map[f]
          /\ instance[f] # docs[1].map[f]

\* The error open(), safe_load() or content.items() raises on a path.
OriginalError(doc) ==
    IF doc.kind = "missing" THEN "FileNotFoundError"
    ELSE IF doc.kind = "invalid" THEN "YAMLError"
    ELSE "AttributeError"

(***************************************************************************)
(* C9: when a listed config file cannot be opened or read as a mapping,   *)
(* load ends with that original error and returns no instance;            *)
(* MissingParamError comes only from the construction step: every listed  *)
(* file was read and the accumulator does not fit the schema.              *)
(***************************************************************************)
C9_FileErrorsNotWrapped ==
    /\ \A i \in 1..Len(docs) :
          (docs[i].kind # "mapping" /\ (i < Len(docs) \/ pc # "read")) =>
              /\ pc = "failed"
              /\ err = OriginalError(docs[i])
              /\ instance = EmptyDict
    /\ err = "MissingParamError" =>
          /\ pc = "failed"
          /\ ~SomeFileFailed
          /\ Len(docs) = Len(paths)
          /\ DOMAIN settings # Fields(cls)

\* The second file is no YAML although the first was merged and fields
\* are still missing: the error is the parser's.
C9_Witness ==
    /\ pc = "failed" /\ err = "YAMLError"
    /\ Len(docs) = 2
    /\ settings # EmptyDict
    /\ \E f \in Fields(cls) : ~Supplied(f)

SameInputsAsLast ==
    /\ last.cls = cls
    /\ last.filepaths = filepaths
    /\ last.params = params
    /\ last.docs = docs

(***************************************************************************)
(* C10: in a sequence of calls every call ends as its own class, files    *)
(* and overrides determine; a call with the inputs of the call before it  *)
(* ends with the same instance or error and the same warnings, and the    *)
(* accumulator of a call never holds a name this call's sources did not   *)
(* give.                                                                   *)
(***************************************************************************)
C10_IndependentCalls ==
    /\ Ended => Outcome = LoadOutcome(cls, docs, params)
    /\ (Ended /\ SameInputsAsLast) => Outcome = last.outcome
    /\ pc \in {"open", "read", "params", "convert", "construct"} =>
          (DOMAIN settings) \subseteq SuppliedNames

\* A call that fails for a missing field right after a call that
\* returned an instance of the same class.
C10_Witness ==
    /\ pc = "failed" /\ err = "MissingParamError"
    /\ last.cls = cls
    /\ last.outcome.pc = "done"
    /\ \E f \in Fields(cls) : ~Supplied(f) /\ f \in DOMAIN last.outcome.instance

(***************************************************************************)
(* C14: during load the config files are opened in the supplied order,    *)
(* at most one is open at any moment, a file is closed before the next    *)
(* is opened, and none is open when load has returned or failed, parse    *)
(* failures included.                                                       *)
(***************************************************************************)
C14_ScopedFileAcquisition ==
    /\ Cardinality(open) <= 1
    /\ open # {} <=> pc = "read"
    /\ pc = "read" =>
          /\ Len(docs) = idx
          /\ open = {ProcessFilepaths(filepaths)[idx]}
    /\ pc = "open" => Len(docs) = idx - 1
    /\ Ended => open = {}

\* The second file of the list was opened and is no YAML: load has failed
\* and no file is open.
C14_Witness ==
    /\ pc = "failed" /\ err = "YAMLError"
    /\ Len(docs) = 2
    /\ docs[1].kind = "mapping"
    /\ open = {}

UnknownOverrideNames == {k \in DOMAIN params : Overridden(k) /\ k \notin Fields(cls)}

(***************************************************************************)
(* C16, as stated: a non-null override whose name is no schema field      *)
(* stays in the accumulator, so load on a dataclass fails with            *)
(* MissingParamError and returns no instance.                              *)
(***************************************************************************)
C16_UnknownOverrideAlwaysMissingParamError ==
    /\ pc \in {"convert", "construct"} => UnknownOverrideNames \subseteq DOMAIN settings
    /\ (Ended /\ cls # "PlainSettings" /\ UnknownOverrideNames # {}) =>
          pc = "failed" /\ err = "MissingParamError"

(***************************************************************************)
(* C16, amended: a non-null override whose name is no schema field stays  *)
(* in the accumulator once the overrides are applied, so load on a         *)
(* dataclass returns no instance, even when every schema field has been   *)
(* supplied; the error is MissingParamError unless a listed file could    *)
(* not be opened or read as a mapping or a time constructor rejected a    *)
(* value, in which case load has already ended with that error.           *)
(***************************************************************************)
C16_UnknownOverrideKept ==
    /\ pc \in {"convert", "construct"} => UnknownOverrideNames \subseteq DOMAIN settings
    /\ (Ended /\ cls # "PlainSettings" /\ UnknownOverrideNames # {}) =>
          /\ pc = "failed"
          /\ instance = EmptyDict
          /\ SomeFileFailed =>
                err \in {"FileNotFoundError", "YAMLError", "AttributeError"}
          /\ (~SomeFileFailed /\ SomeTimeRejected) => err = "ValueError"
          /\ (~SomeFileFailed /\ ~SomeTimeRejected) => err = "MissingParamError"

\* Every schema field was supplied, a file among the sources, and load
\* failed with MissingParamError for the override that names no field.
C16_Witness ==
    /\ pc = "failed" /\ err = "MissingParamError"
    /\ UnknownOverrideNames # {}
    /\ Len(docs) >= 1
    /\ \A f \in Fields(cls) : Supplied(f)

(***************************************************************************)
(* The gains endpoint: GET /ex2/gains is answered by calculate_gains      *)
(* (src/api/api/stock_api.py), called by the route with the four query    *)
(* parameters as the route has typed them.                                 *)
(***************************************************************************)
\* Most requests received in a run.
MaxRequests == 3

Companies == {"AAPL", "INVALID"}

DateTexts ==
    {"2000-01-01", "2000-01-02", "2013-02-08", "2013-2-8", "2015-06-01", "2018-02-07",
     "2013-02-30", "invalid_date"}

Investments == {-1000, 0, 1000}

\* The route: name: str, starting_date: str, end_date: str, investment: float.
Requests ==
    [name : Companies, starting_date : DateTexts, end_date : DateTexts,
     investment : Investments]

\* datetime.strptime(text, "%Y-%m-%d") raises ValueError: the text is no
\* date at all, or names a day the month does not have.
StrptimeRaises(text) == text \in {"invalid_date", "2013-02-30"}

\* str(ve) of the ValueError that datetime.strptime raises for the text.
StrptimeError(text) ==
    CASE text = "invalid_date" ->
             "time data 'invalid_date' does not match format '%Y-%m-%d'"
      [] text = "2013-02-30" -> "day is out of range for month"

\* datetime.strptime(text, "%Y-%m-%d") of an accepted text, as a day count:
\* later dates have larger counts; %m and %d take one digit as well as two,
\* so "2013-2-8" is the day "2013-02-08".
Strptime(text) ==
    CASE text = "2000-01-01" -> 1
      [] text = "2000-01-02" -> 2
      [] text \in {"2013-02-08", "2013-2-8"} -> 3
      [] text = "2015-06-01" -> 5
      [] text = "2018-02-07" -> 6

Row(n, d, o, c) == [Name |-> n, date |-> d, open |-> o, close |-> c]

\* What prepare_data can return: frames of scaled prices, one row for a
\* company and a day.  StandardScaler centres each column, so a scaled
\* price can be negative or zero.
Quoted ==
    {Row("AAPL", 3, 1, -1), Row("AAPL", 5, -1, 1), Row("AAPL", 6, -1, 1),
     Row("MSFT", 3, 1, 1)}

MidOnly == {Row("AAPL", 5, 1, 1)}

ZeroOpen == {Row("AAPL", 3, 0, 1), Row("AAPL", 6, 1, 1)}

PreparedFrames == {Quoted, MidOnly, ZeroOpen}

\* prepare_data returns a frame or raises.
PrepareOutcomes ==
    {[ok |-> TRUE, frame |-> f] : f \in PreparedFrames} \cup {[ok |-> FALSE, frame |-> {}]}

\* Variant: load_data swallows the error and an empty frame is cached.
LruCachedAlways(cached, outcome) == [full |-> TRUE, frame |-> outcome.frame]

\* @lru_cache(maxsize=1): a returned frame is kept, a raised error is not.
LruCached(cached, outcome) ==
    IF outcome.ok THEN [full |-> TRUE, frame |-> outcome.frame] ELSE cached

\* Variant: equal dates pass.
StartAfterEnd(start, end) == start > end

\* if start_date >= end_date:
StartNotBefore(start, end) == start >= end

GainsHeaders ==
    {"Company", "Starting Date", "End Date", "Initial Investment", "Starting Price",
     "Ending Price", "Gains/Losses", "Percent Change", "Final Value"}

\* raise HTTPException(status_code, detail)
HttpError(status, detail) ==
    [status |-> status, detail |-> detail, headers |-> {}, gains |-> 0]

Respond(r) ==
    /\ response' = r
    /\ gpc' = "responded"

\* A request reaches the route.
ReceiveRequest ==
    /\ gpc \in {"idle", "responded"}
    /\ served < MaxRequests
    /\ request' \in Requests
    /\ gpc' = "validate"
    /\ dates' = NoDates
    /\ loadResult' = "none"
    /\ response' = NoResponse
    /\ served' = served + 1
    /\ UNCHANGED <<cache, loadLog, loadVars, meanVars>>

\* f"Invalid date format. Use YYYY-MM-DD. Error: {ve}"
InvalidDateDetail(text) ==
    "Invalid date format. Use YYYY-MM-DD. Error: " \o StrptimeError(text)

\* lines 76-84: the starting date is parsed, then the end date, and the
\* first ValueError is the one reported; then the two are compared.
ValidateDates ==
    /\ gpc = "validate"
    /\ IF StrptimeRaises(request.starting_date)
       THEN /\ Respond(HttpError(400, InvalidDateDetail(request.starting_date)))
            /\ dates' = dates
       ELSE IF StrptimeRaises(request.end_date)
       THEN /\ Respond(HttpError(400, InvalidDateDetail(request.end_date)))
            /\ dates' = dates
       ELSE IF StartNotBefore(Strptime(request.starting_date), Strptime(request.end_date))
       THEN /\ Respond(HttpError(400, "Start date must be before end date."))
            /\ dates' = dates
       ELSE /\ dates' = [start |-> Strptime(request.starting_date),
                         end |-> Strptime(request.end_date)]
            /\ gpc' = "load"
            /\ response' = response
    /\ UNCHANGED <<request, cache, loadResult, loadLog, served, loadVars, meanVars>>

\* line 87 and load_data, lines 21-35: the cached frame, or prepare_data;
\* an error of prepare_data becomes a 500 and nothing is cached.
LoadData ==
    /\ gpc = "load"
    /\ IF cache.full
       THEN /\ loadResult' = "hit"
            /\ gpc' = "compute"
            /\ UNCHANGED <<cache, response>>
       ELSE \E outcome \in PrepareOutcomes :
            /\ cache' = LruCached(cache, outcome)
            /\ IF outcome.ok
               THEN /\ loadResult' = "prepared"
                    /\ gpc' = "compute"
                    /\ response' = response
               ELSE /\ loadResult' = "failed"
                    /\ Respond(HttpError(500, "Internal server error while loading data."))
    /\ loadLog' = Append(loadLog, loadResult')
    /\ UNCHANGED <<request, dates, served, loadVars, meanVars>>

\* The one value of a column of a frame of one row: Series.item().
ItemOf(rows, column) == (CHOOSE r \in rows : TRUE)[column]

\* lines 89-159: the filters, the two prices, the gains and the page; an
\* error that is no HTTPException becomes a 500.
ComputeGains ==
    /\ gpc = "compute"
    /\ LET company_data ==
              {r \in cache.frame : /\ r.Name = request.name
                                   /\ r.date >= dates.start
                                   /\ r.date <= dates.end}
           start_price_data == {r \in company_data : r.date = dates.start}
           end_price_data == {r \in company_data : r.date = dates.end}
           start_price == ItemOf(start_price_data, "open")
           end_price == ItemOf(end_price_data, "close")
       IN  IF company_data = {}
           THEN Respond(HttpError(404,
                    "No data found for the specified company and date range."))
           ELSE IF start_price_data = {} \/ end_price_data = {}
           THEN Respond(HttpError(404, "No data found for the specified dates."))
           ELSE IF \/ Cardinality(start_price_data) # 1
                   \/ Cardinality(end_price_data) # 1
                   \/ start_price = 0
           THEN Respond(HttpError(500, "Internal server error while calculating gains"))
           ELSE Respond([status |-> 200, detail |-> "", headers |-> GainsHeaders,
                         gains |-> (end_price \div start_price) * request.investment])
    /\ UNCHANGED <<request, dates, cache, loadResult, loadLog, served, loadVars, meanVars>>

\* No call of load is under way.
LoadIdle ==
    /\ cls = "PreparationSettings"
    /\ filepaths = [form |-> "none", paths |-> <<>>]
    /\ params = EmptyDict
    /\ pc = "idle"
    /\ paths = <<>>
    /\ idx = 0
    /\ docs = <<>>
    /\ open = {}
    /\ settings = EmptyDict
    /\ warnings = 0
    /\ instance = EmptyDict
    /\ err = "none"
    /\ last = NoCall

InitGains == LoadIdle /\ GainsIdle /\ MeanIdle

NextGains ==
    \/ ReceiveRequest
    \/ ValidateDates
    \/ LoadData
    \/ ComputeGains

SpecGains == InitGains /\ [][NextGains]_vars

(***************************************************************************)
(* Vocabulary of the claims about the gains endpoint.                      *)
(***************************************************************************)
\* The text is written YYYY-MM-DD: four digits, two digits, two digits.
InFormat(text) ==
    text \in {"2000-01-01", "2000-01-02", "2013-02-08", "2015-06-01", "2018-02-07",
              "2013-02-30"}

\* The order of the texts written YYYY-MM-DD, read as year, month, day.
WrittenDay(text) ==
    CASE text = "2000-01-01" -> 1
      [] text = "2000-01-02" -> 2
      [] text = "2013-02-08" -> 3
      [] text = "2013-02-30" -> 4
      [] text = "2015-06-01" -> 5
      [] text = "2018-02-07" -> 6

Answered == gpc = "responded"

\* The rows of the loaded data for the company from day a to day b.
RowsBetween(a, b) ==
    {r \in cache.frame : r.Name = request.name /\ r.date >= a /\ r.date <= b}

RowsOn(d) == {r \in cache.frame : r.Name = request.name /\ r.date = d}

Is(status, detail) == response.status = status /\ response.detail = detail

\* A 400 whose detail begins with 'Invalid date format'.
IsInvalidDateFormat ==
    /\ response.status = 400
    /\ response.detail \in {InvalidDateDetail(text) : text \in {t \in DateTexts : StrptimeRaises(t)}}

ClaimedColumns ==
    {"Company", "Starting Date", "End Date", "Initial Investment", "Gains/Losses",
     "Percent Change"}

IsPage == response.status = 200 /\ ClaimedColumns \subseteq response.headers

\* C11 as stated: the status is that of the first failing check among
\* format, order of the dates, rows in the range, rows on the two dates,
\* and 200 with the table otherwise; both 400s are decided before any load.
C11_FirstFailingCheckOrPage ==
    Answered =>
        LET s == request.starting_date
            e == request.end_date
        IN  IF ~InFormat(s) \/ ~InFormat(e)
            THEN IsInvalidDateFormat /\ loadResult = "none"
            ELSE IF ~(WrittenDay(s) < WrittenDay(e))
            THEN Is(400, "Start date must be before end date.") /\ loadResult = "none"
            ELSE IF RowsBetween(WrittenDay(s), WrittenDay(e)) = {}
            THEN Is(404, "No data found for the specified company and date range.")
            ELSE IF RowsOn(WrittenDay(s)) = {} \/ RowsOn(WrittenDay(e)) = {}
            THEN Is(404, "No data found for the specified dates.")
            ELSE IsPage

\* C11, amended: a date is invalid when strptime with "%Y-%m-%d" rejects it
\* (one-digit months and days pass, a day the month lacks does not); after
\* the two 400 checks, decided before any load, a failed load of the stock
\* data gives 500; then the two 404 checks; then a starting price of zero
\* gives 500; otherwise the response is 200 with the table.
C11_StatusPrecedence ==
    Answered =>
        LET s == request.starting_date
            e == request.end_date
        IN  IF StrptimeRaises(s)
            THEN Is(400, InvalidDateDetail(s)) /\ loadResult = "none"
            ELSE IF StrptimeRaises(e)
            THEN Is(400, InvalidDateDetail(e)) /\ loadResult = "none"
            ELSE IF Strptime(s) >= Strptime(e)
            THEN Is(400, "Start date must be before end date.") /\ loadResult = "none"
            ELSE IF loadResult = "failed"
            THEN Is(500, "Internal server error while loading data.")
            ELSE IF RowsBetween(Strptime(s), Strptime(e)) = {}
            THEN Is(404, "No data found for the specified company and date range.")
            ELSE IF RowsOn(Strptime(s)) = {} \/ RowsOn(Strptime(e)) = {}
            THEN Is(404, "No data found for the specified dates.")
            ELSE IF \E r \in RowsOn(Strptime(s)) : r.open = 0
            THEN Is(500, "Internal server error while calculating gains")
            ELSE IsPage /\ loadResult \in {"prepared", "hit"}

\* Equal dates for a company without data, with the data already loaded:
\* the second check answers, and nothing is loaded for this request.
C11_Witness ==
    /\ Answered
    /\ request.name = "INVALID"
    /\ request.starting_date = "2013-2-8"
    /\ request.end_date = "2013-02-08"
    /\ Is(400, "Start date must be before end date.")
    /\ cache.full
    /\ loadResult = "none"

\* C13: a request whose investment is zero or negative is never answered
\* with a 200 gains page.
C13_NonPositiveInvestmentRejected ==
    (Answered /\ request.investment <= 0) => response.status # 200

\* Entries of the log of load_data calls before entry i.
Before(i) == 1 .. (i - 1)

\* prepare_data ran in the calls logged as prepared or failed.
Prepared(i) == loadLog[i] \in {"prepared", "failed"}

\* The request under way passed the date validation.
PassedValidation == gpc \in {"load", "compute"} \/ (Answered /\ dates # NoDates)

\* C15: over the requests that pass date validation, load_data runs
\* prepare_data on each until the first success and never afterwards, when
\* the cached frame is reused; a request on which preparation fails gets
\* status 500 and leaves the cache empty.
C15_PreparedOnceFailuresNotCached ==
    /\ \A i \in DOMAIN loadLog :
          /\ Prepared(i) <=> \A j \in Before(i) : loadLog[j] = "failed"
          /\ loadLog[i] = "hit" <=> \E j \in Before(i) : loadLog[j] = "prepared"
    /\ cache.full <=> \E i \in DOMAIN loadLog : loadLog[i] = "prepared"
    /\ ~cache.full => cache = EmptyCache
    /\ (Answered /\ PassedValidation) =>
          /\ loadLog # <<>>
          /\ loadResult = loadLog[Len(loadLog)]
    /\ (Answered /\ loadResult = "failed") =>
          /\ response.status = 500
          /\ cache = EmptyCache
    /\ ~PassedValidation => loadResult = "none"

\* Preparation failed for the first request, succeeded for the second, and
\* the third was answered from the cache.
C15_Witness ==
    /\ loadLog = <<"failed", "prepared", "hit">>
    /\ Answered
    /\ response.status = 200

(***************************************************************************)
(* subtract_group_mean (src/api/processing/subtract_group_mean.py), called *)
(* as in its test with group_col = "group_col" and val_col = "val_col".    *)
(* Means are exact fractions; the rounding of floats is left out.          *)
(***************************************************************************)
\* Most rows of an input frame.
MaxRows == 3

\* Keys of the group column; a key can be null.
GroupKeys == {Str("A"), Str("B"), None}

Values == {0, 1, 2}

InputRows == [group_col : GroupKeys, val_col : Values]

RECURSIVE FramesOfLen(_)
FramesOfLen(n) ==
    IF n = 0 THEN {<<>>}
    ELSE {Append(df, r) : df \in FramesOfLen(n - 1), r \in InputRows}

Frames == UNION {FramesOfLen(n) : n \in 0 .. MaxRows}

RECURSIVE Gcd(_, _)
Gcd(a, b) == IF b = 0 THEN a ELSE Gcd(b, a % b)

Abs(x) == IF x < 0 THEN -x ELSE x

\* The fraction n / d, d > 0, in lowest terms.
Ratio(n, d) ==
    LET g == Gcd(Abs(n), d)
    IN  [num |-> n \div g, den |-> d \div g]

Plus(a, b) == Ratio(a.num * b.den + b.num * a.den, a.den * b.den)

\* pl.col(val_col) - pl.col(mean_col)
Minus(v, mean) == Ratio(v * mean.den - mean.num, mean.den)

\* f"{val_col}_mean_by_{group_col}"
mean_col == "val_col_mean_by_group_col"

RowsOfGroup(df, g) == {i \in DOMAIN df : df[i].group_col = g}

RECURSIVE SumOfRows(_, _)
SumOfRows(df, rows) ==
    IF rows = {} THEN 0
    ELSE LET i == CHOOSE j \in rows : TRUE
         IN  df[i].val_col + SumOfRows(df, rows \ {i})

\* df.group_by(group_col).agg(pl.col(val_col).mean().alias(mean_col)): one
\* mean for every key of the frame, the null key included.
GroupMeans(df) ==
    [g \in {df[i].group_col : i \in DOMAIN df} |->
        Ratio(SumOfRows(df, RowsOfGroup(df, g)), Cardinality(RowsOfGroup(df, g)))]

\* df.join(group_means, on=group_col): the inner join, in the order of df.
\* Whether a null key matches the null key of group_means is the default of
\* the installed polars (nulls_equal).
Join(df, group_means, nulls_equal) ==
    LET matched == SelectSeq(df, LAMBDA r : /\ r.group_col \in DOMAIN group_means
                                           /\ (r.group_col = None => nulls_equal))
    IN  [i \in DOMAIN matched |->
            [group_col |-> matched[i].group_col,
             val_col |-> matched[i].val_col,
             val_col_mean_by_group_col |-> group_means[matched[i].group_col]]]

\* with_columns((pl.col(val_col) - pl.col(mean_col)).alias(val_col))
WithColumns(df_with_means) ==
    [i \in DOMAIN df_with_means |->
        [df_with_means[i] EXCEPT !.val_col = Minus(@, df_with_means[i][mean_col])]]

\* One call of subtract_group_mean(frame, "group_col", "val_col").
SubtractGroupMean ==
    /\ mpc = "input"
    /\ \E nulls_equal \in BOOLEAN :
          result' = WithColumns(Join(frame, GroupMeans(frame), nulls_equal))
    /\ mpc' = "done"
    /\ UNCHANGED <<frame, loadVars, gainsVars>>

InitMean ==
    /\ LoadIdle
    /\ GainsIdle
    /\ frame \in Frames
    /\ result = <<>>
    /\ mpc = "input"

NextMean == SubtractGroupMean

SpecMean == InitMean /\ [][NextMean]_vars

(***************************************************************************)
(* Vocabulary of the claim about subtract_group_mean.                      *)
(***************************************************************************)
\* The mean of the value column over the input rows with the group key g.
MeanOfGroup(g) ==
    Ratio(SumOfRows(frame, RowsOfGroup(frame, g)), Cardinality(RowsOfGroup(frame, g)))

RECURSIVE SumAdjusted(_)
SumAdjusted(rows) ==
    IF rows = {} THEN Ratio(0, 1)
    ELSE LET i == CHOOSE j \in rows : TRUE
         IN  Plus(result[i].val_col, SumAdjusted(rows \ {i}))

Subtracted == mpc = "done"

\* Row i of the output is row i of the input with its group mean taken off.
RowAdjusted(i) ==
    /\ result[i].group_col = frame[i].group_col
    /\ result[i][mean_col] = MeanOfGroup(frame[i].group_col)
    /\ result[i].val_col = Minus(frame[i].val_col, MeanOfGroup(frame[i].group_col))

\* C12: the output has exactly one row per input row; in each the value
\* column is the input value minus the mean over the input rows of the same
\* group, the new column holds that mean, and within each group the
\* adjusted values sum to zero.
C12_OneAdjustedRowPerInputRow ==
    Subtracted =>
        /\ Len(result) = Len(frame)
        /\ \A i \in DOMAIN frame : RowAdjusted(i)
        /\ \A g \in GroupKeys :
              SumAdjusted({i \in DOMAIN result : result[i].group_col = g}) = Ratio(0, 1)

\* The rows whose group key is not null.
KeyedRows == SelectSeq(frame, LAMBDA r : r.group_col # None)

\* What the function does on every build: the rows with a key, each with
\* its group mean taken off, are in the output in their order; rows with a
\* null key are either all there or all dropped.
KeyedRowsAdjusted ==
    Subtracted =>
        \/ Len(result) = Len(frame) /\ \A i \in DOMAIN frame : RowAdjusted(i)
        \/ /\ Len(result) = Len(KeyedRows)
           /\ \A i \in DOMAIN result :
                 /\ result[i].group_col = KeyedRows[i].group_col
                 /\ result[i][mean_col] = MeanOfGroup(KeyedRows[i].group_col)
                 /\ result[i].val_col =
                       Minus(KeyedRows[i].val_col, MeanOfGroup(KeyedRows[i].group_col))
====
